---------------------------- MODULE Spec2Model ----------------------------
(***************************************************************************)
(* Client-side synchronisation and versioning of the template library:    *)
(* the App coordinator (React state, effects and handlers), the version   *)
(* service, the import/export adapter and the remote sync client.         *)
(*                                                                         *)
(* Representation of JavaScript values                                     *)
(*  - a string that the code splits on '.' (a revision) is the sequence   *)
(*    of its dot-separated parts: "1.0.9" is <<"1","0","9">>, "abc" is     *)
(*    <<"abc">>, "" is <<"">>; the value undefined is <<>>;                *)
(*  - an object is a record whose DOMAIN is the set of its own keys; a    *)
(*    key that is present holds a value of its declared type (templates,  *)
(*    when present, is an array); an optional property whose value is     *)
(*    undefined is an absent key;                                          *)
(*  - a text (file contents, request body, stored item) is a record       *)
(*    [enc, body]: enc = "json" for the serialisation of the object body, *)
(*    enc = "lz" for the LZ-String compression of the text body, anything *)
(*    else for text that is neither;                                       *)
(*  - time stamps are the token "ts".                                      *)
(***************************************************************************)
EXTENDS Integers, Sequences, FiniteSets

VARIABLES
  mounted,       \* the App component has been mounted (its effects have run)
  templates,     \* useState<Template[]>
  version,       \* useState<string>
  cloudConfig,   \* useState<CloudConfig>
  isSyncing,     \* useState<boolean>
  localStorage,  \* window.localStorage: key -> stored item
  timers,        \* pending setTimeout callbacks of the auto-save effect (closures)
  inflight,      \* HTTP requests sent and not yet answered, oldest first
  remote,        \* the JSON document held by the remote store
  job,           \* the running analysis of TemplateManager (closure of its render)
  backup,        \* the file last downloaded by exportData
  userOps,       \* number of user operations so far
  uuids,         \* number of ids drawn from crypto.randomUUID
  uncaught,      \* an exception escaped a handler or a state initialiser
  last           \* the step last taken, with the values it started from (a
                 \* delete also keeps the add it directly follows, if any)

vars == <<mounted, templates, version, cloudConfig, isSyncing, localStorage,
          timers, inflight, remote, job, backup, userOps, uuids, uncaught, last>>

-----------------------------------------------------------------------------
(* Bounds of the model *)

MaxUserOps == 2

MaxInflight == 2

MaxBatch == 2

-----------------------------------------------------------------------------
(* JavaScript primitives *)

undefined == <<>>

NaN == -1

Numerals ==
  <<"0", "1", "2", "3", "4", "5", "6", "7", "8", "9", "10", "11", "12",
    "13", "14", "15", "16", "17", "18", "19", "20">>

\* Number(s) for the part strings of the model: "" converts to 0, a decimal
\* numeral to its value, anything else to NaN.
Number(s) ==
  IF s = "" THEN 0
  ELSE IF \E i \in 1..Len(Numerals) : Numerals[i] = s
       THEN (CHOOSE i \in 1..Len(Numerals) : Numerals[i] = s) - 1
       ELSE NaN

\* `${n}` for a non-negative integer.
NumberToString(n) == Numerals[n + 1]

isNaN(n) == n = NaN

\* Truthiness of a string-or-undefined value.
Truthy(v) == v # undefined /\ v # <<"">>

Has(o, k) == k \in DOMAIN o

Timestamp == "ts"

\* JSON.stringify of an object: properties whose value is undefined are left
\* out (version is the only property that can be undefined here).
JSONstringify(o) ==
  [enc |-> "json",
   body |-> [k \in {f \in DOMAIN o : ~(f = "version" /\ o[f] = undefined)} |-> o[k]]]

\* JSON.stringify of an array (the text of the array, held under "array").
JSONstringifyArray(a) == [enc |-> "json", body |-> [array |-> a]]

\* JSON.parse of a text: the object, or a SyntaxError.
JSONparse(text) ==
  IF text.enc = "json" THEN [ok |-> TRUE, value |-> text.body]
  ELSE [ok |-> FALSE, value |-> [error |-> "SyntaxError"]]

\* LZString.compressToUTF16 / decompressFromUTF16 (external library): the
\* decompression of a text that no compression produced is empty.
EmptyText == [enc |-> "empty", body |-> [none |-> TRUE]]

compressToUTF16(text) == [enc |-> "lz", body |-> text]

decompressFromUTF16(text) == IF text.enc = "lz" THEN text.body ELSE EmptyText

-----------------------------------------------------------------------------
(* versionService *)

VERSION_KEY == "legal_app_version"

DEFAULT_VERSION == <<"1", "0", "0">>

getItem(store, key) == IF key \in DOMAIN store THEN store[key] ELSE undefined

setItem(store, key, value) ==
  [k \in DOMAIN store \cup {key} |-> IF k = key THEN value ELSE store[k]]

getStoredVersion(store) ==
  IF Truthy(getItem(store, VERSION_KEY)) THEN getItem(store, VERSION_KEY)
  ELSE DEFAULT_VERSION

\* incrementVersion with the carry into major dropped (minor is reset, major
\* is left as it was).
incrementVersionNoMajorCarry(currentVersion) ==
  LET parts == [i \in 1..Len(currentVersion) |-> Number(currentVersion[i])]
  IN  IF Len(parts) # 3 \/ \E i \in 1..Len(parts) : isNaN(parts[i])
      THEN [ret |-> <<"1", "0", "1">>, stored |-> <<"1", "0", "1">>]
      ELSE LET patch1 == parts[3] + 1
               patch  == IF patch1 > 9 THEN 0 ELSE patch1
               minor1 == IF patch1 > 9 THEN parts[2] + 1 ELSE parts[2]
               minor  == IF minor1 > 9 THEN 0 ELSE minor1
               newVersion == <<NumberToString(parts[1]), NumberToString(minor),
                               NumberToString(patch)>>
           IN  [ret |-> newVersion, stored |-> newVersion]

\* incrementVersion whose recovery branch persists its input, not 1.0.1.
incrementVersionResetNotPersisted(currentVersion) ==
  LET parts == [i \in 1..Len(currentVersion) |-> Number(currentVersion[i])]
  IN  IF Len(parts) # 3 \/ \E i \in 1..Len(parts) : isNaN(parts[i])
      THEN [ret |-> <<"1", "0", "1">>, stored |-> currentVersion]
      ELSE LET patch1 == parts[3] + 1
               patch  == IF patch1 > 9 THEN 0 ELSE patch1
               minor1 == IF patch1 > 9 THEN parts[2] + 1 ELSE parts[2]
               minor  == IF minor1 > 9 THEN 0 ELSE minor1
               major  == IF minor1 > 9 THEN parts[1] + 1 ELSE parts[1]
               newVersion == <<NumberToString(major), NumberToString(minor), NumberToString(patch)>>
           IN  [ret |-> newVersion, stored |-> newVersion]

\* incrementVersion carrying one step early (patch >= 9 instead of patch > 9).
incrementVersionCarryAtNine(currentVersion) ==
  LET parts == [i \in 1..Len(currentVersion) |-> Number(currentVersion[i])]
  IN  IF Len(parts) # 3 \/ \E i \in 1..Len(parts) : isNaN(parts[i])
      THEN [ret |-> <<"1", "0", "1">>, stored |-> <<"1", "0", "1">>]
      ELSE LET patch1 == parts[3] + 1
               patch  == IF patch1 >= 9 THEN 0 ELSE patch1
               minor1 == IF patch1 >= 9 THEN parts[2] + 1 ELSE parts[2]
               minor  == IF minor1 > 9 THEN 0 ELSE minor1
               major  == IF minor1 > 9 THEN parts[1] + 1 ELSE parts[1]
               newVersion == <<NumberToString(major), NumberToString(minor), NumberToString(patch)>>
           IN  [ret |-> newVersion, stored |-> newVersion]

\* The value returned and the value written under VERSION_KEY.
incrementVersion(currentVersion) ==
  LET parts == [i \in 1..Len(currentVersion) |-> Number(currentVersion[i])]
  IN  IF Len(parts) # 3 \/ \E i \in 1..Len(parts) : isNaN(parts[i])
      THEN [ret |-> <<"1", "0", "1">>, stored |-> <<"1", "0", "1">>]
      ELSE LET patch1 == parts[3] + 1
               patch  == IF patch1 > 9 THEN 0 ELSE patch1
               minor1 == IF patch1 > 9 THEN parts[2] + 1 ELSE parts[2]
               minor  == IF minor1 > 9 THEN 0 ELSE minor1
               major  == IF minor1 > 9 THEN parts[1] + 1 ELSE parts[1]
               newVersion == <<NumberToString(major), NumberToString(minor), NumberToString(patch)>>
           IN  [ret |-> newVersion, stored |-> newVersion]

-----------------------------------------------------------------------------
(* persistenceService: export to and import from a backup file *)

\* The file that exportData offers for download.
exportData(tpls, ver) ==
  LET data == [version |-> ver, templates |-> tpls, exportedAt |-> Timestamp]
  IN  [name |-> <<"legal_secretary_backup_Vr_", ver, ".json">>,
       text |-> JSONstringify(data)]

\* The promise of parseImportData settled: resolved with {templates, version}
\* or rejected with an error message.
parseImportData(file) ==
  LET parsed == JSONparse(file.text)
      data   == parsed.value
  IN  IF ~parsed.ok
      THEN [ok |-> FALSE, value |-> [error |-> "Loi khi doc file JSON."]]
      ELSE IF ~Has(data, "templates") \/ ~Has(data, "version") \/ ~Truthy(data.version)
      THEN [ok |-> FALSE, value |-> [error |-> "File khong hop le hoac bi hong."]]
      ELSE [ok |-> TRUE,
            value |-> [templates |-> data.templates, version |-> data.version]]

-----------------------------------------------------------------------------
(* syncService: the remote sync client *)

DecompressionMessage == "Du lieu dam may bi loi hoac khong tuong thich (Loi giai nen)."

\* parseResponse returning the payload as it is when decompression fails.
parseResponseNoThrow(rawResponse) ==
  LET payload == IF Has(rawResponse, "record") THEN rawResponse.record ELSE rawResponse
  IN  IF Has(payload, "compressed") /\ payload.compressed = TRUE /\ Has(payload, "data")
      THEN LET decompressedString == decompressFromUTF16(payload.data)
               parsedData == JSONparse(decompressedString)
           IN  IF decompressedString = EmptyText \/ ~parsedData.ok
               THEN [ok |-> TRUE, value |-> payload]
               ELSE [ok |-> TRUE, value |-> parsedData.value]
      ELSE [ok |-> TRUE, value |-> payload]

\* parseResponse without its first step: a record field is not unwrapped.
parseResponseNoUnwrap(rawResponse) ==
  LET payload == rawResponse
  IN  IF Has(payload, "compressed") /\ payload.compressed = TRUE /\ Has(payload, "data")
      THEN LET decompressedString == decompressFromUTF16(payload.data)
               parsedData == JSONparse(decompressedString)
           IN  IF decompressedString = EmptyText \/ ~parsedData.ok
               THEN [ok |-> FALSE, value |-> [error |-> DecompressionMessage]]
               ELSE [ok |-> TRUE, value |-> parsedData.value]
      ELSE [ok |-> TRUE, value |-> payload]

\* parseResponse: the CloudData of a response body, or the error thrown.
parseResponse(rawResponse) ==
  LET payload == IF Has(rawResponse, "record") THEN rawResponse.record ELSE rawResponse
  IN  IF Has(payload, "compressed") /\ payload.compressed = TRUE /\ Has(payload, "data")
      THEN LET decompressedString == decompressFromUTF16(payload.data)
               parsedData == JSONparse(decompressedString)
           IN  IF decompressedString = EmptyText \/ ~parsedData.ok
               THEN [ok |-> FALSE, value |-> [error |-> DecompressionMessage]]
               ELSE [ok |-> TRUE, value |-> parsedData.value]
      ELSE [ok |-> TRUE, value |-> payload]

\* The headers both requests carry.
Headers(config) ==
  IF config.apiKey # ""
  THEN [ContentType |-> "application/json", XAccessKey |-> config.apiKey,
        XMasterKey |-> config.apiKey, Authorization |-> <<"Bearer", config.apiKey>>]
  ELSE [ContentType |-> "application/json"]

\* fetchCloudData pushing an (empty) document instead of reading.
FetchRequestPushes(config) ==
  [method |-> "PUT", url |-> config.endpoint, headers |-> Headers(config),
   body |-> [enc |-> "json", body |-> [compressed |-> FALSE]]]

\* The request fetchCloudData sends.
FetchRequest(config) ==
  [method |-> "GET", url |-> config.endpoint, headers |-> Headers(config)]

\* What fetchCloudData returns or throws for a response.
fetchCloudData(res) ==
  IF res.kind = "network"
  THEN [ok |-> FALSE, value |-> [error |-> "Failed to fetch"]]
  ELSE IF ~res.ok
  THEN [ok |-> FALSE, value |-> [error |-> "Sync Error"]]
  ELSE parseResponse(res.json)

\* saveCloudData sending the data as it is, without the compressed wrapper.
SaveRequestUncompressed(config, data) ==
  [method |-> "PUT", url |-> config.endpoint, headers |-> Headers(config),
   body |-> JSONstringify(data)]

\* The request saveCloudData sends.
SaveRequest(config, data) ==
  LET jsonString == JSONstringify(data)
      compressedString == compressToUTF16(jsonString)
      payload == [compressed |-> TRUE, data |-> compressedString, updatedAt |-> Timestamp]
  IN  [method |-> "PUT", url |-> config.endpoint, headers |-> Headers(config),
       body |-> JSONstringify(payload)]

\* What saveCloudData returns or throws for a response.
saveCloudData(res) ==
  IF res.kind = "network"
  THEN [ok |-> FALSE, value |-> [error |-> "Failed to fetch"]]
  ELSE IF ~res.ok
  THEN [ok |-> FALSE, value |-> [error |-> "Save Error"]]
  ELSE [ok |-> TRUE, value |-> [done |-> TRUE]]

-----------------------------------------------------------------------------
(* Values the environment supplies *)

SeedTemplate == [id |-> "tpl-001", name |-> "Don xin nghi phep"]

INITIAL_TEMPLATES == <<SeedTemplate>>

ExtA == [id |-> "x1", name |-> "A"]

ExtB == [id |-> "x1", name |-> "B"]

ExtC == [id |-> "x2", name |-> "C"]

\* crypto.randomUUID: the n-th id drawn; no two draws give the same id.
UUIDs == <<"u1", "u2", "u3", "u4", "u5", "u6", "u7", "u8", "u9", "u10">>

randomUUID(n) == UUIDs[n + 1]

Ids == {"tpl-001", "x1", "u1"}

EmptyConfig == [endpoint |-> "", apiKey |-> ""]

Configs == [endpoint : {"", "E1"}, apiKey : {"", "K1"}]

EmptyStore == [k \in {} |-> undefined]

\* An item that is not the text of any JSON value.
CorruptItem == [enc |-> "text", body |-> [none |-> TRUE]]

\* What local storage can hold when the application starts: nothing (first
\* run), what an earlier run of the application wrote there, or a collection
\* item that is not JSON.
InitialStores ==
  { EmptyStore,
    setItem(EmptyStore, "legal_templates", CorruptItem),
    setItem(setItem(setItem(EmptyStore,
                            "legal_templates", JSONstringifyArray(<<ExtC, SeedTemplate>>)),
                    VERSION_KEY, <<"1", "9", "9">>),
            "legal_cloud_config", JSONstringify([endpoint |-> "E1", apiKey |-> "K1"])) }

\* Documents the remote store can hold before the application first writes it.
RemoteDocs ==
  { [version |-> <<"1", "0", "0">>, templates |-> <<ExtA, ExtB>>, lastUpdated |-> Timestamp],
    [record |-> [templates |-> <<ExtA>>]],
    [record |-> SaveRequest(EmptyConfig,
                   [version |-> <<"9", "9", "9">>, templates |-> <<>>,
                    lastUpdated |-> Timestamp]).body.body],
    [compressed |-> TRUE, data |-> [enc |-> "text", body |-> [none |-> TRUE]],
     updatedAt |-> Timestamp],
    [message |-> "Bin not found"] }

\* The answers a request can get while the remote store holds doc.
Responses(doc) ==
  { [kind |-> "http", ok |-> TRUE, json |-> doc],
    [kind |-> "http", ok |-> FALSE, json |-> doc],
    [kind |-> "network", ok |-> FALSE, json |-> doc] }

\* Backup files the user can pick, besides the file last exported.
ImportFiles ==
  { [name |-> <<"notes.txt">>, text |-> [enc |-> "text", body |-> [none |-> TRUE]]],
    [name |-> <<"a.json">>, text |-> JSONstringify([templates |-> <<ExtA>>])],
    [name |-> <<"b.json">>, text |-> JSONstringify([version |-> <<"3", "0", "0">>])],
    [name |-> <<"c.json">>,
     text |-> JSONstringify([version |-> <<"">>, templates |-> <<ExtA>>])],
    exportData(<<ExtC>>, <<"1", "0", "0">>) }

NoFile == [name |-> <<>>, text |-> EmptyText]

NoJob == [kind |-> "none", version |-> undefined, left |-> 0]

-----------------------------------------------------------------------------
(* App: state initialisers *)

\* Whether a state initialiser throws: JSON.parse of a stored item, outside
\* any try block.
InitialiserThrows(store) ==
  \/ Has(store, "legal_cloud_config") /\ ~JSONparse(store["legal_cloud_config"]).ok
  \/ Has(store, "legal_templates") /\ ~JSONparse(store["legal_templates"]).ok

\* The initial cloud config (none when the initialiser throws: held as empty).
LoadConfig(store) ==
  IF Has(store, "legal_cloud_config") /\ JSONparse(store["legal_cloud_config"]).ok
  THEN JSONparse(store["legal_cloud_config"]).value
  ELSE EmptyConfig

\* The initial collection (none when the initialiser throws: held as empty).
LoadTemplates(store) ==
  IF ~Has(store, "legal_templates") THEN INITIAL_TEMPLATES
  ELSE IF JSONparse(store["legal_templates"]).ok
  THEN JSONparse(store["legal_templates"]).value.array
  ELSE <<>>

\* The state after construction, for the given local stores and remote documents.
InitWith(stores, docs) ==
  /\ localStorage \in stores
  /\ remote \in docs
  /\ mounted = FALSE
  /\ templates = LoadTemplates(localStorage)
  /\ version = getStoredVersion(localStorage)
  /\ cloudConfig = LoadConfig(localStorage)
  /\ isSyncing = FALSE
  /\ timers = {}
  /\ inflight = <<>>
  /\ job = NoJob
  /\ backup = NoFile
  /\ userOps = 0
  /\ uuids = 0
  /\ uncaught = InitialiserThrows(localStorage)
  /\ last = [op |-> "init"]

Init == InitWith(InitialStores, RemoteDocs)

-----------------------------------------------------------------------------
(* App: effects, run after every render whose dependencies changed *)

RemoveAt(q, i) == SubSeq(q, 1, i - 1) \o SubSeq(q, i + 1, Len(q))

\* Local persistence with the effect of the revision left out.
LocalPersistenceTemplatesOnly(store, tplChanged, verChanged) ==
  IF tplChanged
  THEN setItem(store, "legal_templates", JSONstringifyArray(templates'))
  ELSE store

\* Local persistence effects: mirror the collection and the revision.
LocalPersistence(store, tplChanged, verChanged) ==
  LET a == IF tplChanged
           THEN setItem(store, "legal_templates", JSONstringifyArray(templates'))
           ELSE store
  IN  IF verChanged THEN setItem(a, VERSION_KEY, version') ELSE a

\* The auto-load effect without the test of the endpoint.
AutoLoadUnguarded(changed) == changed

\* Auto-load effect: whether it starts handleCloudSync(true).
AutoLoad(changed) == changed /\ cloudConfig'.endpoint # ""

\* The auto-save effect whose early return on an empty endpoint also skips the
\* clean-up of the previous run.
AutoSaveKeepsTimerOnEmptyEndpoint(changed) ==
  IF ~changed \/ cloudConfig'.endpoint = "" THEN timers
  ELSE {[t EXCEPT !.current = FALSE] : t \in {u \in timers : ~u.current}}
       \cup {[current |-> TRUE, cloudConfig |-> cloudConfig',
               version |-> version', templates |-> templates']}

\* The auto-save effect without its test of the endpoint.
AutoSaveUnguarded(changed) ==
  IF ~changed THEN timers
  ELSE {[t EXCEPT !.current = FALSE] : t \in {u \in timers : ~u.current}}
       \cup {[current |-> TRUE, cloudConfig |-> cloudConfig',
               version |-> version', templates |-> templates']}

\* The auto-save effect without its clean-up: the earlier timer stays pending.
AutoSaveNoCleanup(changed) ==
  IF ~changed THEN timers
  ELSE LET kept == {[t EXCEPT !.current = FALSE] : t \in timers}
       IN  IF cloudConfig'.endpoint = "" THEN kept
           ELSE kept \cup {[current |-> TRUE, cloudConfig |-> cloudConfig',
                            version |-> version', templates |-> templates']}

\* Auto-save effect: the pending timers after its clean-up and its new run.
\* The timer marked current is the one the effect's clean-up will clear.
AutoSave(changed) ==
  IF ~changed THEN timers
  ELSE LET kept == {[t EXCEPT !.current = FALSE] : t \in {u \in timers : ~u.current}}
       IN  IF cloudConfig'.endpoint = "" THEN kept
           ELSE kept \cup {[current |-> TRUE, cloudConfig |-> cloudConfig',
                            version |-> version', templates |-> templates']}

\* The effects of one render: first is the mount, tplChanged tells whether the
\* collection was set; store, syncing and requests are what the handler left.
Effects(first, tplChanged, store, syncing, requests) ==
  LET verChanged == first \/ version' # version
      epChanged  == first \/ cloudConfig'.endpoint # cloudConfig.endpoint
      keyChanged == first \/ cloudConfig'.apiKey # cloudConfig.apiKey
      load       == AutoLoad(epChanged \/ keyChanged)
  IN  /\ localStorage' = LocalPersistence(store, tplChanged, verChanged)
      /\ isSyncing' = IF load THEN TRUE ELSE syncing
      /\ inflight' = IF load THEN Append(requests, FetchRequest(cloudConfig'))
                     ELSE requests
      /\ timers' = AutoSave(tplChanged \/ verChanged \/ epChanged)
      /\ Len(inflight') <= MaxInflight

\* The first render commits (it does not when an initialiser threw).
Mount ==
  /\ ~mounted
  /\ ~uncaught
  /\ mounted' = TRUE
  /\ UNCHANGED <<templates, version, cloudConfig>>
  /\ Effects(TRUE, TRUE, localStorage, isSyncing, inflight)
  /\ last' = [op |-> "mount", pv |-> version, pt |-> templates, pn |-> Len(inflight)]
  /\ UNCHANGED <<remote, job, backup, userOps, uuids, uncaught>>

-----------------------------------------------------------------------------
(* App: cloud synchronisation *)

\* handleCloudSync(false) returning at once while another sync is underway.
TimerFireWhenIdle ==
  \E t \in timers :
    /\ mounted
    /\ ~isSyncing
    /\ t.cloudConfig.endpoint # ""
    /\ Len(inflight) < MaxInflight
    /\ timers' = timers \ {t}
    /\ isSyncing' = TRUE
    /\ inflight' = Append(inflight,
                      SaveRequest(t.cloudConfig,
                                  [version |-> t.version, templates |-> t.templates,
                                   lastUpdated |-> Timestamp]))
    /\ last' = [op |-> "timer", pv |-> version, pt |-> templates, pn |-> Len(inflight)]
    /\ UNCHANGED <<mounted, templates, version, cloudConfig, localStorage, remote,
                   job, backup, userOps, uuids, uncaught>>

\* The timer of the auto-save effect expires: handleCloudSync(false) of the
\* render that set it.
TimerFire ==
  \E t \in timers :
    /\ mounted
    /\ t.cloudConfig.endpoint # ""
    /\ Len(inflight) < MaxInflight
    /\ timers' = timers \ {t}
    /\ isSyncing' = TRUE
    /\ inflight' = Append(inflight,
                      SaveRequest(t.cloudConfig,
                                  [version |-> t.version, templates |-> t.templates,
                                   lastUpdated |-> Timestamp]))
    /\ last' = [op |-> "timer", pv |-> version, pt |-> templates, pn |-> Len(inflight)]
    /\ UNCHANGED <<mounted, templates, version, cloudConfig, localStorage, remote,
                   job, backup, userOps, uuids, uncaught>>

\* The fetch branch overwriting only when the fetched revision is not older
\* than the local one.
FetchOverwriteIfNewer(r) ==
  IF /\ r.ok /\ Has(r.value, "templates")
     /\ Has(r.value, "version") /\ Len(r.value.version) = 3 /\ Len(version) = 3
     /\ Number(version[1]) <= Number(r.value.version[1])
  THEN [set |-> TRUE, templates |-> r.value.templates, version |-> r.value.version]
  ELSE [set |-> FALSE, templates |-> templates, version |-> version]

\* The fetch branch setting the revision without testing that one was fetched.
FetchOverwriteAnyVersion(r) ==
  IF r.ok /\ Has(r.value, "templates")
  THEN [set |-> TRUE,
        templates |-> r.value.templates,
        version |-> IF Has(r.value, "version") THEN r.value.version ELSE undefined]
  ELSE [set |-> FALSE, templates |-> templates, version |-> version]

\* The collection and revision after the fetch branch of handleCloudSync.
FetchOverwrite(r) ==
  IF r.ok /\ Has(r.value, "templates")
  THEN [set |-> TRUE,
        templates |-> r.value.templates,
        version |-> IF Has(r.value, "version") /\ Truthy(r.value.version)
                    THEN r.value.version ELSE version]
  ELSE [set |-> FALSE, templates |-> templates, version |-> version]

\* handleCloudSync without its catch block.
SyncThrowsUncaught(r) == TRUE

\* Whether the exception of a failed sync leaves handleCloudSync.
SyncThrows(r) == FALSE

\* A GET is answered: the rest of handleCloudSync(true).
FetchDone ==
  \E i \in 1..Len(inflight) : \E res \in Responses(remote) :
    LET r  == fetchCloudData(res)
        ow == FetchOverwrite(r)
    IN  /\ inflight[i].method = "GET"
        /\ templates' = ow.templates
        /\ version' = ow.version
        /\ UNCHANGED cloudConfig
        /\ Effects(FALSE, ow.set, localStorage, FALSE, RemoveAt(inflight, i))
        /\ uncaught' = (uncaught \/ (~r.ok /\ SyncThrows(r)))
        /\ last' = [op |-> "fetch", pv |-> version, pt |-> templates,
                    pn |-> Len(inflight), result |-> r, req |-> inflight[i],
                    pr |-> remote]
        /\ UNCHANGED <<mounted, remote, job, backup, userOps, uuids>>

\* A PUT is answered: the rest of handleCloudSync(false).
SaveDone ==
  \E i \in 1..Len(inflight) : \E res \in Responses(remote) :
    LET r == saveCloudData(res)
    IN  /\ inflight[i].method = "PUT"
        /\ remote' = IF r.ok THEN JSONparse(inflight[i].body).value ELSE remote
        /\ isSyncing' = FALSE
        /\ inflight' = RemoveAt(inflight, i)
        /\ uncaught' = (uncaught \/ (~r.ok /\ SyncThrows(r)))
        /\ last' = [op |-> "save", pv |-> version, pt |-> templates,
                    pn |-> Len(inflight), result |-> r]
        /\ UNCHANGED <<mounted, templates, version, cloudConfig, localStorage,
                       timers, job, backup, userOps, uuids>>

\* saveSettings aborting the requests in flight under the old configuration.
saveSettingsAbortsRequests(newConfig) ==
  /\ mounted
  /\ userOps < MaxUserOps
  /\ userOps' = userOps + 1
  /\ cloudConfig' = newConfig
  /\ UNCHANGED <<templates, version>>
  /\ Effects(FALSE, FALSE,
             setItem(localStorage, "legal_cloud_config", JSONstringify(newConfig)),
             isSyncing, <<>>)
  /\ last' = [op |-> "saveSettings", pv |-> version, pt |-> templates,
              pn |-> Len(inflight), pc |-> cloudConfig, pi |-> inflight]
  /\ UNCHANGED <<mounted, remote, job, backup, uuids, uncaught>>

saveSettings(newConfig) ==
  /\ mounted
  /\ userOps < MaxUserOps
  /\ userOps' = userOps + 1
  /\ cloudConfig' = newConfig
  /\ UNCHANGED <<templates, version>>
  /\ Effects(FALSE, FALSE,
             setItem(localStorage, "legal_cloud_config", JSONstringify(newConfig)),
             isSyncing, inflight)
  /\ last' = [op |-> "saveSettings", pv |-> version, pt |-> templates,
              pn |-> Len(inflight), pc |-> cloudConfig, pi |-> inflight]
  /\ UNCHANGED <<mounted, remote, job, backup, uuids, uncaught>>

-----------------------------------------------------------------------------
(* App: mutations of the collection *)

\* filter(t => t.id !== id)
FilterOut(q, id) == SelectSeq(q, LAMBDA t : t.id # id)

\* handleAddTemplate of a render whose revision was closureVersion: the
\* collection and revision it sets and the item incrementVersion stores.
handleAddTemplate(newTemplate, closureVersion) ==
  LET newVer == incrementVersion(closureVersion)
  IN  [templates |-> <<newTemplate>> \o templates,
       version |-> newVer.ret,
       stored |-> newVer.stored]

\* handleDeleteTemplate removing only the first entry that has the id.
handleDeleteTemplateFirstMatch(id, closureVersion) ==
  LET newVer == incrementVersion(closureVersion)
      hits   == {i \in 1..Len(templates) : templates[i].id = id}
      first  == CHOOSE i \in hits : \A k \in hits : i <= k
  IN  [templates |-> IF hits = {} THEN templates ELSE RemoveAt(templates, first),
       version |-> newVer.ret,
       stored |-> newVer.stored]

\* handleDeleteTemplate of a render whose revision was closureVersion.
handleDeleteTemplate(id, closureVersion) ==
  LET newVer == incrementVersion(closureVersion)
  IN  [templates |-> FilterOut(templates, id),
       version |-> newVer.ret,
       stored |-> newVer.stored]

\* The template built from a successful analysis.
NewTemplate == [id |-> randomUUID(uuids), name |-> "N"]

\* onAddTemplate(newTemplate) called by an analysis that started in a render
\* whose revision was job.version.
AddFromJob(op) ==
  LET r == handleAddTemplate(NewTemplate, job.version)
  IN  /\ templates' = r.templates
      /\ version' = r.version
      /\ uuids' = uuids + 1
      /\ UNCHANGED cloudConfig
      /\ Effects(FALSE, TRUE, setItem(localStorage, VERSION_KEY, r.stored),
                 isSyncing, inflight)
      /\ last' = [op |-> op, pv |-> version, pt |-> templates, pn |-> Len(inflight),
                  tpl |-> NewTemplate, cv |-> job.version]

NoAddFromJob(op) ==
  /\ last' = [op |-> op, pv |-> version, pt |-> templates, pn |-> Len(inflight)]
  /\ UNCHANGED <<templates, version, cloudConfig, localStorage, isSyncing,
                 inflight, timers, uuids>>

\* TemplateManager.handleAnalyze up to its await.
AnalyzeStart ==
  /\ mounted
  /\ job.kind = "none"
  /\ userOps < MaxUserOps
  /\ userOps' = userOps + 1
  /\ job' = [kind |-> "single", version |-> version, left |-> 1]
  /\ last' = [op |-> "analyzeStart", pv |-> version, pt |-> templates,
              pn |-> Len(inflight)]
  /\ UNCHANGED <<mounted, templates, version, cloudConfig, isSyncing, localStorage,
                 timers, inflight, remote, backup, uuids, uncaught>>

\* TemplateManager.handleAnalyze after its await.
AnalyzeDone ==
  /\ job.kind = "single"
  /\ job' = NoJob
  /\ \/ AddFromJob("add")
     \/ NoAddFromJob("analyzeFailed")
  /\ UNCHANGED <<mounted, remote, backup, userOps, uncaught>>

\* TemplateManager.handleBatchAnalyze up to its first await, with n inputs.
BatchStart ==
  \E n \in 1..MaxBatch :
    /\ mounted
    /\ job.kind = "none"
    /\ userOps + n <= MaxUserOps
    /\ userOps' = userOps + n
    /\ job' = [kind |-> "batch", version |-> version, left |-> n]
    /\ last' = [op |-> "batchStart", pv |-> version, pt |-> templates,
                pn |-> Len(inflight)]
    /\ UNCHANGED <<mounted, templates, version, cloudConfig, isSyncing, localStorage,
                   timers, inflight, remote, backup, uuids, uncaught>>

\* TemplateManager.handleBatchAnalyze: one input analysed.
BatchItemDone ==
  /\ job.kind = "batch"
  /\ job' = IF job.left = 1 THEN NoJob ELSE [job EXCEPT !.left = job.left - 1]
  /\ \/ AddFromJob("add")
     \/ NoAddFromJob("analyzeFailed")
  /\ UNCHANGED <<mounted, remote, backup, userOps, uncaught>>

\* handleDeleteTemplate(id) called from the current render (the delete button,
\* confirmed, passes the id of a listed template; the handler takes any id).
DeleteTemplate ==
  \E id \in Ids :
    LET r == handleDeleteTemplate(id, version)
    IN  /\ mounted
        /\ userOps < MaxUserOps
        /\ userOps' = userOps + 1
        /\ templates' = r.templates
        /\ version' = r.version
        /\ UNCHANGED cloudConfig
        /\ Effects(FALSE, TRUE, setItem(localStorage, VERSION_KEY, r.stored),
                   isSyncing, inflight)
        /\ last' = [op |-> "delete", pv |-> version, pt |-> templates,
                    pn |-> Len(inflight), id |-> id,
                    prev |-> IF last.op = "add" THEN last ELSE [op |-> "other"]]
        /\ UNCHANGED <<mounted, remote, job, backup, uuids, uncaught>>

-----------------------------------------------------------------------------
(* App: backup files *)

handleExport ==
  /\ mounted
  /\ userOps < MaxUserOps
  /\ userOps' = userOps + 1
  /\ backup' = exportData(templates, version)
  /\ last' = [op |-> "export", pv |-> version, pt |-> templates, pn |-> Len(inflight)]
  /\ UNCHANGED <<mounted, templates, version, cloudConfig, isSyncing, localStorage,
                 timers, inflight, remote, job, uuids, uncaught>>

\* handleFileChange restoring without asking for confirmation.
ImportResultUnconfirmed(r, confirmed) ==
  IF r.ok
  THEN [set |-> TRUE, templates |-> r.value.templates, version |-> r.value.version]
  ELSE [set |-> FALSE, templates |-> templates, version |-> version]

\* The collection and revision after handleFileChange, for the settled promise
\* of parseImportData and the user's answer to the confirmation.
ImportResult(r, confirmed) ==
  IF r.ok /\ confirmed
  THEN [set |-> TRUE, templates |-> r.value.templates, version |-> r.value.version]
  ELSE [set |-> FALSE, templates |-> templates, version |-> version]

handleFileChange ==
  \E file \in ImportFiles \cup {backup} : \E confirmed \in BOOLEAN :
    LET r  == parseImportData(file)
        im == ImportResult(r, confirmed)
    IN  /\ mounted
        /\ file # NoFile
        /\ confirmed => r.ok
        /\ userOps < MaxUserOps
        /\ userOps' = userOps + 1
        /\ templates' = im.templates
        /\ version' = im.version
        /\ UNCHANGED cloudConfig
        /\ Effects(FALSE, im.set, localStorage, isSyncing, inflight)
        /\ last' = [op |-> "import", pv |-> version, pt |-> templates,
                    pn |-> Len(inflight), file |-> file, result |-> r,
                    confirmed |-> confirmed]
        /\ UNCHANGED <<mounted, remote, job, backup, uuids, uncaught>>

-----------------------------------------------------------------------------

Next ==
  \/ Mount
  \/ TimerFire
  \/ FetchDone
  \/ SaveDone
  \/ \E newConfig \in Configs : saveSettings(newConfig)
  \/ AnalyzeStart
  \/ AnalyzeDone
  \/ BatchStart
  \/ BatchItemDone
  \/ DeleteTemplate
  \/ handleExport
  \/ handleFileChange

Spec == Init /\ [][Next]_vars

-----------------------------------------------------------------------------
(* The application with a local storage whose writes can fail: setItem throws
   (quota exceeded). No call of setItem is inside a try block. *)

\* An effect threw: React unmounts the component tree (App has no error
\* boundary); the clean-up of the auto-save effect clears its timer.
Unmounted ==
  /\ mounted' = FALSE
  /\ timers' = {}
  /\ uncaught' = TRUE
  /\ UNCHANGED <<localStorage, isSyncing, inflight>>

\* handleDeleteTemplate(id) when the setItem of incrementVersion throws: the
\* update of the collection is already queued, setVersion is not reached and
\* the exception leaves the click handler. The persistence effect of the new
\* collection then writes it, or throws as well.
DeleteTemplateWriteFails ==
  \E id \in Ids : \E effectThrows \in BOOLEAN :
    /\ mounted
    /\ userOps < MaxUserOps
    /\ userOps' = userOps + 1
    /\ templates' = FilterOut(templates, id)
    /\ UNCHANGED <<version, cloudConfig>>
    /\ IF effectThrows
       THEN Unmounted
       ELSE /\ Effects(FALSE, TRUE, localStorage, isSyncing, inflight)
            /\ uncaught' = TRUE
            /\ UNCHANGED mounted
    /\ last' = [op |-> "deleteWriteFailed", pv |-> version, pt |-> templates,
                pn |-> Len(inflight), id |-> id,
                want |-> handleDeleteTemplate(id, version)]
    /\ UNCHANGED <<remote, job, backup, uuids>>

\* onAddTemplate(newTemplate) when the setItem of incrementVersion throws: the
\* update of the collection is already queued, setVersion is not reached and
\* the exception is caught by the catch block of the analysis, which shows it
\* as a failed analysis. The persistence effect of the new collection then
\* writes it, or throws.
AnalyzeDoneWriteFails ==
  \E effectThrows \in BOOLEAN :
    /\ mounted
    /\ job.kind = "single"
    /\ job' = NoJob
    /\ templates' = <<NewTemplate>> \o templates
    /\ uuids' = uuids + 1
    /\ UNCHANGED <<version, cloudConfig>>
    /\ IF effectThrows
       THEN Unmounted
       ELSE /\ Effects(FALSE, TRUE, localStorage, isSyncing, inflight)
            /\ UNCHANGED <<mounted, uncaught>>
    /\ last' = [op |-> "addWriteFailed", pv |-> version, pt |-> templates,
                pn |-> Len(inflight), tpl |-> NewTemplate,
                want |-> handleAddTemplate(NewTemplate, job.version)]
    /\ UNCHANGED <<remote, backup, userOps>>

\* The steps of the application while its component tree is mounted or has
\* not been mounted yet.
Running == (mounted \/ ~uncaught) /\ Next

QuotaNext ==
  \/ Running
  \/ DeleteTemplateWriteFails
  \/ AnalyzeDoneWriteFails

QuotaSpec == Init /\ [][QuotaNext]_vars

-----------------------------------------------------------------------------
(* The application started against a remote store that another client wrote *)

\* A document whose version is not of the form major.minor.patch.
ForeignDoc == [version |-> <<"v2">>, templates |-> <<ExtA>>, lastUpdated |-> Timestamp]

ForeignInit == InitWith(InitialStores, {ForeignDoc})

ForeignSpec == ForeignInit /\ [][Next]_vars

-----------------------------------------------------------------------------
(* The version service called on its own, for every input of a bounded set *)

Digits == {"0", "1", "2", "3", "4", "5", "6", "7", "8", "9"}

VersionParts == Digits \cup {"10", "", "abc"}

VersionInputs ==
  {<<a, b, c>> : a \in VersionParts, b \in VersionParts, c \in VersionParts}
  \cup {<<"abc">>, <<"not-a-version">>, <<"1", "2">>, <<"1", "2", "3", "4">>}

VersionInit ==
  /\ version \in VersionInputs
  /\ localStorage = setItem(EmptyStore, VERSION_KEY, version)
  /\ remote = [message |-> "Bin not found"]
  /\ mounted = FALSE
  /\ templates = INITIAL_TEMPLATES
  /\ cloudConfig = EmptyConfig
  /\ isSyncing = FALSE
  /\ timers = {}
  /\ inflight = <<>>
  /\ job = NoJob
  /\ backup = NoFile
  /\ userOps = 0
  /\ uuids = 0
  /\ uncaught = FALSE
  /\ last = [op |-> "init"]

\* A call incrementVersion(version) whose result the caller keeps in last.ret.
IncrementCall ==
  LET r == incrementVersion(version)
  IN  /\ localStorage' = setItem(localStorage, VERSION_KEY, r.stored)
      /\ last' = [op |-> "increment", arg |-> version, ret |-> r.ret]
      /\ UNCHANGED <<mounted, templates, version, cloudConfig, isSyncing, timers,
                     inflight, remote, job, backup, userOps, uuids, uncaught>>

VersionSpec == VersionInit /\ [][IncrementCall]_vars

-----------------------------------------------------------------------------
(* Properties *)

\* A revision of three decimal components whose minor and patch are in 0..9.
InRange(v) ==
  /\ Len(v) = 3
  /\ v[1] \in Digits \cup {"10"}
  /\ v[2] \in Digits
  /\ v[3] \in Digits

\* Digit-rollover addition, on the numbers of an in-range revision.
Rollover(a, b, c) ==
  IF c < 9 THEN <<a, b, c + 1>>
  ELSE IF b < 9 THEN <<a, b + 1, 0>>
  ELSE <<a + 1, 0, 0>>

AsNumbers(v) == <<Number(v[1]), Number(v[2]), Number(v[3])>>

AsRevision(n) == <<NumberToString(n[1]), NumberToString(n[2]), NumberToString(n[3])>>

\* C1: for every revision a.b.c with b and c in 0..9, incrementVersion returns
\* a.b.(c+1) when c<9, a.(b+1).0 when c=9 and b<9, and (a+1).0.0 when c=9 and
\* b=9 (1.0.9 -> 1.1.0, 1.9.9 -> 2.0.0, 9.9.9 -> 10.0.0); major is never
\* capped or reset.
C1_IncrementRollover ==
  (last.op = "increment" /\ InRange(last.arg)) =>
    LET n == AsNumbers(last.arg)
    IN  /\ last.ret = AsRevision(Rollover(n[1], n[2], n[3]))
        /\ (last.arg = <<"1", "0", "9">> => last.ret = <<"1", "1", "0">>)
        /\ (last.arg = <<"1", "9", "9">> => last.ret = <<"2", "0", "0">>)
        /\ (last.arg = <<"9", "9", "9">> => last.ret = <<"10", "0", "0">>)
        /\ Number(last.ret[1]) >= n[1]

C1_Witness ==
  /\ last.op = "increment"
  /\ last.arg = <<"9", "9", "9">>
  /\ last.ret = <<"10", "0", "0">>

-----------------------------------------------------------------------------

\* (major, minor, patch) order on revisions of three integer components.
ThreeIntegers(v) == Len(v) = 3 /\ \A i \in 1..3 : v[i] # "" /\ ~isNaN(Number(v[i]))

VersionLeq(v, w) ==
  LET a == AsNumbers(v)
      b == AsNumbers(w)
  IN  \/ a[1] < b[1]
      \/ a[1] = b[1] /\ a[2] < b[2]
      \/ a[1] = b[1] /\ a[2] = b[2] /\ a[3] <= b[3]

\* C2: every add(t) leaves the collection equal to t followed by the previous
\* collection, and sets the revision to increment(r), r the in-memory revision
\* immediately before that add.
C2_AddPrependsAndIncrements ==
  last.op = "add" =>
    /\ templates = <<last.tpl>> \o last.pt
    /\ version = incrementVersion(last.pv).ret

\* The positions of q whose entry does not have the given id, and the entry at
\* the j-th of them.
KeptPositions(q, id) == {i \in 1..Len(q) : q[i].id # id}

KeptEntry(q, id, j) ==
  q[CHOOSE i \in KeptPositions(q, id) :
      Cardinality({k \in KeptPositions(q, id) : k < i}) = j - 1]

\* C3: delete(id) removes exactly the entries whose id is id, keeps the others
\* in their order, and sets the revision to increment(r), r the in-memory
\* revision immediately before the delete, also when no entry matches.
C3_DeleteRemovesAndIncrements ==
  last.op = "delete" =>
    /\ Len(templates) = Cardinality(KeptPositions(last.pt, last.id))
    /\ \A j \in 1..Len(templates) : templates[j] = KeptEntry(last.pt, last.id, j)
    /\ version = incrementVersion(last.pv).ret
    /\ version # last.pv

C3_Witness ==
  /\ last.op = "delete"
  /\ Len(last.pt) = 2
  /\ Len(templates) = 0
  /\ version = <<"1", "0", "1">>

\* C4: each step that is not a fetch overwrite or a confirmed import leaves the
\* in-memory revision greater than or equal to its previous value in (major,
\* minor, patch) order.
C4_RevisionNeverLowered ==
  (/\ last.op \in {"mount", "timer", "save", "saveSettings", "analyzeStart",
                   "batchStart", "add", "analyzeFailed", "delete", "export"}
   /\ ThreeIntegers(last.pv)
   /\ ThreeIntegers(version)) =>
    VersionLeq(last.pv, version)

-----------------------------------------------------------------------------

\* The auto-save timer a render of the current state sets.
TimerOfCurrentState ==
  [current |-> TRUE, cloudConfig |-> cloudConfig, version |-> version,
   templates |-> templates]

\* The step last taken changed the collection, the revision or the endpoint.
ChangedSyncedState ==
  \/ last.op \in {"add", "delete"}
  \/ last.op = "fetch" /\ last.result.ok /\ Has(last.result.value, "templates")
  \/ last.op = "import" /\ last.result.ok /\ last.confirmed
  \/ last.op = "saveSettings" /\ last.pc.endpoint # cloudConfig.endpoint

\* The CloudData a PUT request carries.
SavedData(req) == parseResponse(JSONparse(req.body).value).value

\* C5: with an endpoint configured, every change of the collection, revision
\* or endpoint leaves exactly the timer of the changed state pending (an
\* earlier timer is cancelled); when the timer expires exactly one save is
\* started, whose payload is the in-memory collection and revision.
C5_DebouncedSave ==
  /\ (ChangedSyncedState /\ cloudConfig.endpoint # "") =>
       timers = {TimerOfCurrentState}
  /\ last.op = "timer" =>
       /\ timers = {}
       /\ Len(inflight) = last.pn + 1
       /\ inflight[Len(inflight)].method = "PUT"
       /\ inflight[Len(inflight)].url = cloudConfig.endpoint
       /\ SavedData(inflight[Len(inflight)]).version = version
       /\ SavedData(inflight[Len(inflight)]).templates = templates

C5_Witness ==
  /\ last.op = "timer"
  /\ \E i \in 1..Len(templates) : templates[i].id = "u1"
  /\ Len(inflight) = 1
  /\ SavedData(inflight[1]).templates = templates

\* C6: a non-empty endpoint at start-up, or an endpoint changing from empty to
\* non-empty on a settings save, starts exactly one GET; no GET is started
\* while the endpoint is empty.
StartedRequests == SubSeq(inflight, last.pn + 1, Len(inflight))

C6_OneFetchPerConfiguration ==
  /\ (last.op = "mount" /\ cloudConfig.endpoint # "") =>
       StartedRequests = <<FetchRequest(cloudConfig)>>
  /\ (last.op = "saveSettings" /\ last.pc.endpoint = "" /\ cloudConfig.endpoint # "") =>
       StartedRequests = <<FetchRequest(cloudConfig)>>
  /\ (last.op \in {"mount", "saveSettings", "add", "delete", "import", "export",
                   "analyzeStart", "batchStart", "analyzeFailed"}
      /\ cloudConfig.endpoint = "") =>
       StartedRequests = <<>>

C6_Witness ==
  /\ last.op = "saveSettings"
  /\ last.pc.endpoint = ""
  /\ cloudConfig.endpoint = "E1"
  /\ inflight = <<FetchRequest(cloudConfig)>>
  /\ isSyncing

\* The version property of a fetched payload (undefined when it has none).
FetchedVersion(data) == IF Has(data, "version") THEN data.version ELSE undefined

\* C7 as stated: a successful fetch of a payload whose templates field is an
\* array replaces both the collection and the revision by the fetched values;
\* a payload whose templates field is not an array changes neither.
C7_FetchReplacesBoth ==
  last.op = "fetch" /\ last.result.ok =>
    IF Has(last.result.value, "templates")
    THEN /\ templates = last.result.value.templates
         /\ version = FetchedVersion(last.result.value)
    ELSE templates = last.pt /\ version = last.pv

\* C7 as amended: the collection is replaced by the fetched templates; the
\* revision is replaced by the fetched version when the payload has a
\* non-empty one and is left as it was when it has none; a payload whose
\* templates field is not an array changes neither.
C7_FetchOverwrite ==
  last.op = "fetch" /\ last.result.ok =>
    IF Has(last.result.value, "templates")
    THEN /\ templates = last.result.value.templates
         /\ version = IF Truthy(FetchedVersion(last.result.value))
                      THEN FetchedVersion(last.result.value) ELSE last.pv
    ELSE templates = last.pt /\ version = last.pv

C7_Witness ==
  /\ last.op = "fetch"
  /\ last.result.ok
  /\ last.pv = <<"1", "9", "9">>
  /\ version = <<"1", "0", "0">>
  /\ templates = <<ExtA, ExtB>>
  /\ last.pt # templates

\* C8: a fetch or save that fails with a non-success HTTP status or a network
\* error changes neither the collection nor the revision, its error does not
\* leave the sync, and the syncing flag is cleared when that sync ends.
C8_SyncFailureKeepsState ==
  (/\ last.op \in {"fetch", "save"}
   /\ ~last.result.ok
   /\ last.result.value.error \in {"Sync Error", "Save Error", "Failed to fetch"}) =>
    /\ templates = last.pt
    /\ version = last.pv
    /\ ~uncaught
    /\ ~isSyncing

C8_Witness ==
  /\ last.op = "save"
  /\ ~last.result.ok
  /\ last.result.value.error = "Save Error"
  /\ ~isSyncing
  /\ userOps > 0

\* C9: an import of a file that is not JSON, or lacks a templates array or a
\* version, fails and changes nothing; an import changes state only when
\* validation succeeded and the user confirmed, and then replaces both the
\* collection and the revision by the imported values.
FileDocument(file) == JSONparse(file.text)

C9_ImportAllOrNothing ==
  last.op = "import" =>
    LET doc == FileDocument(last.file)
        bad == \/ ~doc.ok
               \/ ~Has(doc.value, "templates")
               \/ ~Truthy(FetchedVersion(doc.value))
    IN  /\ bad => (~last.result.ok /\ templates = last.pt /\ version = last.pv)
        /\ (templates # last.pt \/ version # last.pv) =>
             (~bad /\ last.result.ok /\ last.confirmed)
        /\ (~bad /\ last.confirmed) =>
             (templates = doc.value.templates /\ version = doc.value.version)
        /\ (~bad /\ ~last.confirmed) => (templates = last.pt /\ version = last.pv)

C9_Witness ==
  /\ last.op = "import"
  /\ last.confirmed
  /\ templates = <<ExtC>>
  /\ version = <<"1", "0", "0">>
  /\ last.pv # version
  /\ last.pt # templates

\* C10: for every collection and revision the application holds in memory,
\* importing the file exportData produces passes validation and returns
\* exactly that collection and revision.
C10_ExportImportRoundTrip ==
  /\ parseImportData(exportData(templates, version)) =
       [ok |-> TRUE, value |-> [templates |-> templates, version |-> version]]
  /\ last.op = "export" =>
       parseImportData(backup) =
         [ok |-> TRUE, value |-> [templates |-> templates, version |-> version]]

C10_Witness ==
  /\ last.op = "import"
  /\ last.file = backup
  /\ last.confirmed
  /\ last.result.ok
  /\ version = <<"9", "9", "9">>
  /\ templates = last.pt

-----------------------------------------------------------------------------

\* The payload of a response body: its record field when it has one.
Unwrapped(body) == IF Has(body, "record") THEN body.record ELSE body

IsCompressed(payload) ==
  Has(payload, "compressed") /\ payload.compressed = TRUE /\ Has(payload, "data")

\* The CloudData of the current state, as handleCloudSync(false) builds it, and
\* the same data in the legacy (uncompressed) format.
CurrentData == [version |-> version, templates |-> templates, lastUpdated |-> Timestamp]

LegacyData == [templates |-> templates, version |-> version]

\* C11: parseResponse first unwraps a record field; a payload with compressed
\* = true and a string data field then gives the JSON-parse of the decompressed
\* data; any other payload (with a templates array or not) is returned
\* unchanged. So {record: {compressed: true, data: compress(D)}} gives D, and a
\* legacy {templates, version} payload, bare or wrapped in record, gives that
\* payload. Checked at every fetch: on the body that was returned and on
\* these three forms of the data then in memory.
C11_ResponseNormalised ==
  last.op = "fetch" =>
    /\ last.result.ok =>
         LET payload == Unwrapped(remote)
         IN  last.result.value =
               IF IsCompressed(payload)
               THEN JSONparse(decompressFromUTF16(payload.data)).value
               ELSE payload
    /\ parseResponse([record |-> [compressed |-> TRUE,
                                  data |-> compressToUTF16(JSONstringify(CurrentData)),
                                  updatedAt |-> Timestamp]])
         = [ok |-> TRUE, value |-> CurrentData]
    /\ parseResponse(LegacyData) = [ok |-> TRUE, value |-> LegacyData]
    /\ parseResponse([record |-> LegacyData]) = [ok |-> TRUE, value |-> LegacyData]

C11_Witness ==
  /\ last.op = "fetch"
  /\ Has(remote, "record")
  /\ IsCompressed(remote.record)
  /\ last.result = [ok |-> TRUE,
                    value |-> [version |-> <<"9", "9", "9">>, templates |-> <<>>,
                               lastUpdated |-> Timestamp]]
  /\ templates = <<>>

-----------------------------------------------------------------------------

\* The body of a request, parsed, and the answer that returns a document.
BodyOf(req) == JSONparse(req.body).value

Returned(doc) == [kind |-> "http", ok |-> TRUE, json |-> doc]

\* The body is the compressed wrapper of data and nothing else.
CompressedWrapperOf(body, data) ==
  /\ DOMAIN body = {"compressed", "data", "updatedAt"}
  /\ body.compressed = TRUE
  /\ body.data = compressToUTF16(JSONstringify(data))
  /\ body.updatedAt = Timestamp

\* C12: every save sends one PUT whose body is {compressed: true, data:
\* compress(JSON(data)), updatedAt}, never the uncompressed data; a fetch that
\* is answered with that body, bare or wrapped in record, returns a CloudData
\* equal to the data saved (version, templates and lastUpdated).
C12_SaveFetchRoundTrip ==
  last.op = "timer" =>
    LET body == BodyOf(inflight[Len(inflight)])
    IN  /\ Len(inflight) = last.pn + 1
        /\ inflight[Len(inflight)].method = "PUT"
        /\ ~Has(body, "templates")
        /\ CompressedWrapperOf(body, CurrentData)
        /\ fetchCloudData(Returned(body)) = [ok |-> TRUE, value |-> CurrentData]
        /\ fetchCloudData(Returned([record |-> body])) = [ok |-> TRUE, value |-> CurrentData]

\* A fetch answered with the document an earlier save of this run wrote.
C12_Witness ==
  /\ last.op = "fetch"
  /\ IsCompressed(remote)
  /\ last.result = [ok |-> TRUE,
                    value |-> [version |-> <<"1", "9", "9">>,
                               templates |-> <<ExtC, SeedTemplate>>,
                               lastUpdated |-> Timestamp]]

-----------------------------------------------------------------------------

-----------------------------------------------------------------------------

\* C14: at start-up, a stored collection that is absent or not parseable
\* gives the seed template set, a stored revision that is absent or unreadable
\* gives 1.0.0, and start-up does not fail whatever local storage holds.
C14_StartUpDefaults ==
  last.op = "init" =>
    /\ (\/ ~Has(localStorage, "legal_templates")
        \/ ~JSONparse(localStorage["legal_templates"]).ok) =>
         templates = INITIAL_TEMPLATES
    /\ ~Truthy(getItem(localStorage, VERSION_KEY)) => version = DEFAULT_VERSION
    /\ ~uncaught

-----------------------------------------------------------------------------

\* C15: for every input that is not exactly three integer components (fewer or
\* more than three parts, or a part that is not an integer), incrementVersion
\* returns 1.0.1 and the persisted revision becomes 1.0.1.
C15_MalformedResets ==
  (last.op = "increment" /\ ~ThreeIntegers(last.arg)) =>
    /\ last.ret = <<"1", "0", "1">>
    /\ getItem(localStorage, VERSION_KEY) = <<"1", "0", "1">>

-----------------------------------------------------------------------------

\* C16: after any sequence of adds, deletes, confirmed imports and fetch
\* overwrites, once the persistence effects of the step have run, the item
\* legal_templates is the serialisation of the whole in-memory collection and
\* the item legal_app_version is the in-memory revision.
C16_LocalStorageMirrorsState ==
  mounted =>
    /\ getItem(localStorage, "legal_templates") = JSONstringifyArray(templates)
    /\ getItem(localStorage, VERSION_KEY) = version

C16_Witness ==
  /\ last.op = "import"
  /\ last.confirmed
  /\ uuids = 1
  /\ last.pv = <<"2", "0", "0">>
  /\ version = <<"1", "0", "0">>
  /\ getItem(localStorage, VERSION_KEY) = <<"1", "0", "0">>
  /\ getItem(localStorage, "legal_templates") = JSONstringifyArray(<<ExtC>>)

-----------------------------------------------------------------------------

\* C17: from any collection C and in-range revision r, add(T1) with T1.id not
\* in C directly followed by delete(T1.id) leaves the collection equal to C
\* and the revision equal to increment(increment(r)).
C17_AddThenDelete ==
  (/\ last.op = "delete"
   /\ last.prev.op = "add"
   /\ last.id = last.prev.tpl.id
   /\ InRange(last.prev.pv)
   /\ \A i \in 1..Len(last.prev.pt) : last.prev.pt[i].id # last.id) =>
    /\ templates = last.prev.pt
    /\ version = incrementVersion(incrementVersion(last.prev.pv).ret).ret

-----------------------------------------------------------------------------

\* A revision of three components, each a digit 0..9.
AllDigits(v) == Len(v) = 3 /\ \A i \in 1..3 : v[i] \in Digits

\* major.minor.(patch+1)
PatchBumped(v) == <<v[1], v[2], NumberToString(Number(v[3]) + 1)>>

\* C18 as stated: for every revision with each component in 0..9, except
\* those with patch = 9 and minor < 9, incrementVersion gives
\* major.minor.(patch+1).
C18_PatchBumpExceptMinorCarry ==
  (/\ last.op = "increment"
   /\ AllDigits(last.arg)
   /\ ~(last.arg[3] = "9" /\ last.arg[2] # "9")) =>
    last.ret = PatchBumped(last.arg)

\* C18 as amended: for every revision with each component in 0..9 and patch
\* below 9, incrementVersion gives major.minor.(patch+1); every revision
\* with patch = 9 is excepted, minor = 9 included: x.9.9 gives (x+1).0.0 and
\* not x.9.10.
C18_PatchBumpBelowNine ==
  (last.op = "increment" /\ AllDigits(last.arg)) =>
    /\ last.arg[3] # "9" => last.ret = PatchBumped(last.arg)
    /\ (last.arg[3] = "9" /\ last.arg[2] = "9") =>
         last.ret = <<NumberToString(Number(last.arg[1]) + 1), "0", "0">>

C18_Witness ==
  /\ last.op = "increment"
  /\ last.arg = <<"9", "9", "8">>
  /\ last.ret = <<"9", "9", "9">>

-----------------------------------------------------------------------------

\* C19: right after any call of incrementVersion returns, for well-formed and
\* malformed input alike, the item legal_app_version is the value returned;
\* a caller that discards the result has still changed the persisted revision.
C19_IncrementPersistsResult ==
  last.op = "increment" =>
    /\ getItem(localStorage, VERSION_KEY) = last.ret
    /\ version = last.arg
    /\ getItem(localStorage, VERSION_KEY) # version

C19_Witness ==
  /\ last.op = "increment"
  /\ last.arg = <<"not-a-version">>
  /\ version = <<"not-a-version">>
  /\ getItem(localStorage, VERSION_KEY) = <<"1", "0", "1">>

-----------------------------------------------------------------------------

\* C20: in every reachable state (after any sequence of start-up load, add,
\* delete, confirmed import and fetch overwrite) the in-memory revision has
\* exactly three integer components, with minor and patch in 0..9.
C20_RevisionWellFormed ==
  /\ ThreeIntegers(version)
  /\ version[2] \in Digits
  /\ version[3] \in Digits

-----------------------------------------------------------------------------

\* C21: in every reachable state (after any sequence of add, delete,
\* confirmed import and fetch overwrite) no two templates of the in-memory
\* collection have the same id.
C21_IdsUnique ==
  \A i \in 1..Len(templates) : \A j \in 1..Len(templates) :
    templates[i].id = templates[j].id => i = j

-----------------------------------------------------------------------------

\* A payload marked compressed whose data does not decompress to JSON text.
BadlyCompressed(payload) ==
  /\ IsCompressed(payload)
  /\ \/ decompressFromUTF16(payload.data) = EmptyText
     \/ ~JSONparse(decompressFromUTF16(payload.data)).ok

\* A body whose data is the compression of text that is not JSON.
CompressedNonJSON ==
  [compressed |-> TRUE, data |-> compressToUTF16(CorruptItem), updatedAt |-> Timestamp]

DecompressionError == [ok |-> FALSE, value |-> [error |-> DecompressionMessage]]

\* C22: when the fetched body is marked compressed and its data decompresses
\* to nothing or to text that is not JSON, the fetch fails with the
\* decompression message and the in-memory collection and revision are left
\* as they were.
C22_DecompressionFailure ==
  last.op = "fetch" =>
    /\ (/\ BadlyCompressed(Unwrapped(remote))
        /\ \/ last.result.ok
           \/ last.result.value.error \notin {"Sync Error", "Failed to fetch"}) =>
         /\ last.result = DecompressionError
         /\ templates = last.pt
         /\ version = last.pv
         /\ ~uncaught
    /\ BadlyCompressed(CompressedNonJSON)
    /\ fetchCloudData(Returned(CompressedNonJSON)) = DecompressionError
    /\ fetchCloudData(Returned([record |-> CompressedNonJSON])) = DecompressionError
    /\ FetchOverwrite(fetchCloudData(Returned(CompressedNonJSON)))
         = [set |-> FALSE, templates |-> templates, version |-> version]

C22_Witness ==
  /\ last.op = "fetch"
  /\ IsCompressed(remote)
  /\ decompressFromUTF16(remote.data) = EmptyText
  /\ last.result = DecompressionError
  /\ userOps = 1
  /\ ~isSyncing

-----------------------------------------------------------------------------

\* C23: a local-storage write that fails is never surfaced: the add or delete
\* that caused it still has its whole in-memory effect on the collection and
\* the revision, no exception leaves it, and the application keeps accepting
\* operations.
C23_WriteFailureNotSurfaced ==
  Has(last, "want") =>
    /\ templates = last.want.templates
    /\ version = last.want.version
    /\ ~uncaught
    /\ mounted

-----------------------------------------------------------------------------

\* C24: at every moment at most one auto-save timer is pending; setting a new
\* timer first cancels the previous one, a cancelled timer never starts a
\* save (the save a timer starts carries the state of the render that set the
\* last timer), and when the endpoint becomes empty the pending timer is
\* cancelled and none is set.
C24_SingleTimer ==
  /\ Cardinality(timers) <= 1
  /\ \A t \in timers :
       /\ t.current
       /\ t.version = version
       /\ t.templates = templates
       /\ t.cloudConfig.endpoint = cloudConfig.endpoint
  /\ cloudConfig.endpoint = "" => timers = {}
  /\ last.op = "timer" =>
       /\ timers = {}
       /\ SavedData(inflight[Len(inflight)]).version = last.pv
       /\ SavedData(inflight[Len(inflight)]).templates = last.pt

C24_Witness ==
  /\ last.op = "delete"
  /\ userOps = 2
  /\ uuids = 1
  /\ last.pv # version
  /\ timers = {TimerOfCurrentState}
  /\ inflight = <<>>
  /\ Has(remote, "message")

-----------------------------------------------------------------------------

\* C25: a request in flight is never aborted: no step other than its own
\* completion removes it, a settings save that changes or clears the endpoint
\* leaves every request in flight as it was, and a fetch completes and, with a
\* well-formed payload, overwrites the collection and the revision whatever
\* the configuration has become since it was sent.
C25_InFlightNeverAborted ==
  /\ last.op \in {"fetch", "save"} => Len(inflight) = last.pn - 1
  /\ last.op \notin {"init", "fetch", "save"} =>
       (Has(last, "pn") /\ Len(inflight) >= last.pn)
  /\ last.op = "saveSettings" => SubSeq(inflight, 1, last.pn) = last.pi
  /\ (/\ last.op = "fetch"
      /\ last.req.url # cloudConfig.endpoint
      /\ last.result.ok
      /\ Has(last.result.value, "templates")) =>
       /\ templates = last.result.value.templates
       /\ Truthy(FetchedVersion(last.result.value)) =>
            version = last.result.value.version

C25_Witness ==
  /\ last.op = "fetch"
  /\ last.req.url = "E1"
  /\ cloudConfig = EmptyConfig
  /\ last.result.ok
  /\ templates = <<ExtA, ExtB>>
  /\ version = <<"1", "0", "0">>
  /\ last.pv = <<"1", "9", "9">>

-----------------------------------------------------------------------------

\* C26: there is no mutual exclusion between syncs: a sync that starts is
\* added to those in flight whatever is already underway (a save beside a
\* fetch, a save beside a save), and once the first render or a settings save
\* has left requests in flight and a timer armed, the timer can expire and
\* start its save while those requests are in flight.
C26_NoMutualExclusion ==
  /\ last.op = "timer" =>
       /\ Len(inflight) = last.pn + 1
       /\ inflight[Len(inflight)].method = "PUT"
  /\ (last.op = "saveSettings" /\ last.pc # cloudConfig /\ cloudConfig.endpoint # "") =>
       /\ inflight = Append(last.pi, FetchRequest(cloudConfig))
  /\ (/\ last.op \in {"mount", "saveSettings"}
      /\ timers # {} /\ inflight # <<>> /\ Len(inflight) < MaxInflight) =>
       ENABLED TimerFire

\* Two saves in flight at once; the first carries the state held before the
\* start-up fetch completed, so it was started while that fetch was in flight.
C26_Witness ==
  /\ last.op = "timer"
  /\ Len(inflight) = 2
  /\ inflight[1].method = "PUT"
  /\ inflight[2].method = "PUT"
  /\ SavedData(inflight[1]).version = <<"1", "9", "9">>
  /\ SavedData(inflight[2]).version = <<"1", "0", "0">>
  /\ SavedData(inflight[2]).templates = <<ExtA, ExtB>>
  /\ Has(remote, "templates")
  /\ userOps = 0

-----------------------------------------------------------------------------

\* C27: a fetch-only sync only reads the remote store and overwrites local
\* state: the request it starts with is a GET, and its completion starts no
\* request and leaves the remote document as it was.
C27_FetchOnlyNeverPushes ==
  /\ last.op \in {"mount", "saveSettings"} =>
       \A k \in 1..Len(StartedRequests) :
         /\ StartedRequests[k].method = "GET"
         /\ ~Has(StartedRequests[k], "body")
  /\ last.op = "fetch" =>
       /\ last.req.method = "GET"
       /\ ~Has(last.req, "body")
       /\ Len(inflight) = last.pn - 1
       /\ remote = last.pr

C27_Witness ==
  /\ last.op = "fetch"
  /\ last.pn = 1
  /\ inflight = <<>>
  /\ last.result.ok
  /\ templates = <<ExtA>>
  /\ last.pt = <<ExtC, SeedTemplate>>
  /\ remote = [record |-> [templates |-> <<ExtA>>]]

-----------------------------------------------------------------------------

\* C28: without a user mutation no save is issued: a debounce timer expires
\* (and handleCloudSync(false) sends its PUT) only after some add, delete or
\* import, and never while the fetch started at mount or by a settings save is
\* still in flight with no mutation made.
C28_NoPushWithoutMutation ==
  last.op = "timer" =>
    /\ userOps > 0
    /\ \A k \in 1..last.pn : inflight[k].method # "GET"

-----------------------------------------------------------------------------

\* C29: the syncing indicator is on exactly while some fetch or save is in
\* flight, also when two requests overlap and complete at different times.
C29_IndicatorTracksRequests ==
  isSyncing <=> inflight # <<>>

-----------------------------------------------------------------------------
(* Synchronisation over a network on which every request succeeds *)

\* The errors of fetchCloudData and saveCloudData for a request that got no
\* successful HTTP response.
TransportFailure(r) ==
  /\ ~r.ok
  /\ r.value.error \in {"Sync Error", "Save Error", "Failed to fetch"}

\* A GET answered with a successful HTTP response.
FetchAnswered == FetchDone /\ ~TransportFailure(last'.result)

\* A PUT answered with a successful HTTP response.
SaveAnswered == SaveDone /\ ~TransportFailure(last'.result)

ReliableNext ==
  \/ Mount
  \/ TimerFire
  \/ FetchAnswered
  \/ SaveAnswered
  \/ \E newConfig \in Configs : saveSettings(newConfig)
  \/ AnalyzeStart
  \/ AnalyzeDone
  \/ BatchStart
  \/ BatchItemDone
  \/ DeleteTemplate
  \/ handleExport
  \/ handleFileChange

\* The first render happens, an armed timer expires, and every request in
\* flight is answered; the user may stop at any time.
ReliableSpec ==
  /\ Init
  /\ [][ReliableNext]_vars
  /\ WF_vars(Mount)
  /\ WF_vars(TimerFire)
  /\ WF_vars(FetchAnswered)
  /\ WF_vars(SaveAnswered)

\* No debounce timer is armed and no request is in flight.
Quiescent == timers = {} /\ inflight = <<>>

\* The remote document decodes to the in-memory collection and revision.
RemoteHoldsState ==
  LET d == parseResponse(remote)
  IN  /\ d.ok
      /\ Has(d.value, "templates") /\ d.value.templates = templates
      /\ Has(d.value, "version") /\ d.value.version = version

\* C30: with an endpoint configured, every request answered successfully and
\* the user mutations at an end, the synchronisation comes to rest with the
\* remote store holding exactly the in-memory collection and revision.
C30_EventuallyInSync ==
  <>[](cloudConfig.endpoint # "" => Quiescent /\ RemoteHoldsState)

=============================================================================
